---- MODULE Spec2Model ----
(***************************************************************************)
(* Yomica: the interactive chat session of chatbot/chat_cli.py             *)
(* (chat_session) driving shell_agent/agent.py (ShellAgent).               *)
(*                                                                         *)
(* The session is one thread of control.  Each action below is one stretch *)
(* of chat_session between two points where it blocks on the outside world *)
(* (a line of console input, the language model's reply, the child         *)
(* process).  The reply of the model, the answers typed by the user and    *)
(* the failures of those calls are the nondeterministic inputs.            *)
(***************************************************************************)
EXTENDS Integers, Sequences, FiniteSets, TLC

\* ------------------------------------------------------------------ bounds
\* Lines of input read in one session.
MaxTurns == 2
\* Function calls the language model emits in one session.
MaxCalls == 2

\* ----------------------------------------------------------------- strings
\* Console text is a sequence of one-character strings, so that lower() and
\* strip() are computed and not assumed.
UpperChars == <<"A","B","C","D","E","F","G","H","I","J","K","L","M",
                "N","O","P","Q","R","S","T","U","V","W","X","Y","Z">>
LowerChars == <<"a","b","c","d","e","f","g","h","i","j","k","l","m",
                "n","o","p","q","r","s","t","u","v","w","x","y","z">>
Whitespace == {" ", "\t", "\n"}

LowerChar(c) ==
    IF \E i \in DOMAIN UpperChars : UpperChars[i] = c
    THEN LowerChars[CHOOSE i \in DOMAIN UpperChars : UpperChars[i] = c]
    ELSE c

\* The line compared as typed.
lower_keeps_case(s) == s

\* str.lower()
lower(s) == [i \in DOMAIN s |-> LowerChar(s[i])]

RECURSIVE lstrip(_)
lstrip(s) == IF s # <<>> /\ Head(s) \in Whitespace THEN lstrip(Tail(s)) ELSE s

RECURSIVE rstrip(_)
rstrip(s) ==
    IF s # <<>> /\ s[Len(s)] \in Whitespace
    THEN rstrip(SubSeq(s, 1, Len(s) - 1))
    ELSE s

\* str.strip()
strip(s) == rstrip(lstrip(s))

\* The Python str a character sequence stands for.
RECURSIVE Str(_)
Str(s) == IF s = <<>> THEN "" ELSE Head(s) \o Str(Tail(s))

\* ------------------------------------------------------------- ShellAgent
\* self.available_functions: the names call_tool dispatches on.
available_functions ==
    {"get_disk_space", "list_running_processes",
     "get_current_directory", "list_files_in_directory"}

\* The names declared by get_tool_definitions().
get_tool_definitions ==
    <<[name |-> "get_disk_space", properties |-> {}, required |-> {}],
      [name |-> "list_running_processes",
       properties |-> {"top_n", "sort_by"}, required |-> {}],
      [name |-> "get_current_directory", properties |-> {}, required |-> {}],
      [name |-> "list_files_in_directory",
       properties |-> {"path", "long_format"}, required |-> {}]>>

\* shell_agent.safe_commands, read by chat_session in safe mode.
safe_commands == {"ls", "pwd", "df", "cat", "echo", "grep", "free"}

\* shell_agent.dangerous_commands, read by chat_session in wild mode.
dangerous_commands ==
    {"rm", "rmdir", "sudo", "reboot", "poweroff", "shutdown", "mv", "cp", "apt"}

\* --------------------------------------------------------- CommandExecutor
\* Text is a sequence of pieces, a piece being one whitespace character or a
\* run of other text, so that strip() and splitlines() are computed on it.
\* Str gives the Python str.

\* Python exceptions: KeyboardInterrupt derives from BaseException only, the
\* others from Exception.
IsException(e) ==
    e \in {"EOFError", "TransportError", "TypeError", "CalledProcessError",
           "TimeoutExpired", "FileNotFoundError", "PermissionError"}

\* What subprocess.run(command, capture_output, text, check, timeout=10) can
\* do with one argument vector.
ProcessOutcomes ==
    {[kind |-> "exit0", stdout |-> out, stderr |-> <<>>] :
        out \in {<<" ", "out", "\n">>, <<>>,
                 <<"HDR", "\n", "p1", "\n", "p2", "\n">>,
                 <<"Error: Command timed out after 10 seconds.", "\n">>,
                 <<"Error executing command: bad">>}}
    \cup {[kind |-> "nonzero", stdout |-> <<>>, stderr |-> err] :
        err \in {<<" ", "bad", "\n">>, <<>>}}
    \cup {[kind |-> k, stdout |-> <<>>, stderr |-> <<>>] :
        k \in {"timeout", "notfound", "permission"}}

\* The exception subprocess.run raises for an outcome ("" when it returns).
run_raises(outcome) ==
    CASE outcome.kind = "exit0"      -> ""
      [] outcome.kind = "nonzero"    -> "CalledProcessError"
      [] outcome.kind = "timeout"    -> "TimeoutExpired"
      [] outcome.kind = "notfound"   -> "FileNotFoundError"
      [] outcome.kind = "permission" -> "PermissionError"

\* str(e) of the OSError raised when the executable cannot be started.
oserror_message(e, command) ==
    IF e = "FileNotFoundError"
    THEN "[Errno 2] No such file or directory: '" \o command[1] \o "'"
    ELSE "[Errno 13] Permission denied: '" \o command[1] \o "'"

\* ShellAgent._execute_command(command) when subprocess.run ends as `outcome`:
\* the exception that leaves it ("" when it returns) and the text returned.
execute_command(command, outcome) ==
    LET e == run_raises(outcome) IN
    CASE e = "" -> [raised |-> "", text |-> strip(outcome.stdout)]
      [] e = "CalledProcessError" ->
             [raised |-> "",
              text |-> <<"Error executing command: ">> \o strip(outcome.stderr)]
      [] e = "TimeoutExpired" ->
             [raised |-> "", text |-> <<"Error: Command timed out after 10 seconds.">>]
      [] IsException(e) ->
             [raised |-> "",
              text |-> <<"An unexpected error occurred: " \o oserror_message(e, command)>>]
      [] OTHER -> [raised |-> e, text |-> <<>>]

\* str.splitlines()
RECURSIVE splitlines(_)
splitlines(t) ==
    IF t = <<>> THEN <<>>
    ELSE LET ends == {i \in DOMAIN t : t[i] = "\n"}
             i == IF ends = {} THEN Len(t) + 1
                  ELSE CHOOSE j \in ends : \A k \in ends : j <= k
         IN <<Str(SubSeq(t, 1, i - 1))>> \o splitlines(SubSeq(t, i + 1, Len(t)))

\* "\n".join(lines)
RECURSIVE join_lines(_)
join_lines(lines) ==
    IF lines = <<>> THEN <<>>
    ELSE IF Len(lines) = 1 THEN <<lines[1]>>
    ELSE <<lines[1], "\n">> \o join_lines(Tail(lines))

\* A Python value passed as a keyword argument: its type, its number when it
\* has one (a float by its integer part) and its str().
Value(t, n, s) == [t |-> t, n |-> n, s |-> s]

\* The argument mappings a tool call may carry.
ArgMappings ==
    {<<>>,
     [command |-> Value("str", 0, "ls"), args |-> Value("list", 0, "[]")],
     [top_n |-> Value("int", 1, "1"), sort_by |-> Value("str", 0, "cpu")],
     [top_n |-> Value("int", 0, "0")],
     [top_n |-> Value("float", 2, "2.5")],
     [top_n |-> Value("str", 0, "many")],
     [sort_by |-> Value("str", 0, "disk")],
     [path |-> Value("str", 0, "/tmp"), long_format |-> Value("bool", 1, "True")],
     [path |-> Value("str", 0, "/tmp"), show_hidden |-> Value("bool", 0, "False")]}

\* kwargs.get(key, default)
arg(kwargs, key, default) == IF key \in DOMAIN kwargs THEN kwargs[key] ELSE default

\* Python truth of a value.
truthy(v) == IF v.t \in {"int", "float", "bool"} THEN v.n # 0 ELSE v.s # ""

\* The keyword parameters each handler accepts.
handler_params ==
    [get_disk_space          |-> {},
     list_running_processes  |-> {"top_n", "sort_by"},
     get_current_directory   |-> {},
     list_files_in_directory |-> {"path", "show_hidden", "long_format"}]

\* ShellAgent.list_running_processes(**kwargs)
list_running_processes(kwargs, outcome) ==
    LET top_n   == arg(kwargs, "top_n", Value("int", 10, "10"))
        sort_by == arg(kwargs, "sort_by", Value("str", 0, "memory"))
        is_int  == top_n.t \in {"int", "bool"}
    IN
    IF ~(sort_by.t = "str" /\ sort_by.s \in {"memory", "cpu"})
    THEN [raised |-> "", spawned |-> <<>>,
          text |-> <<"Error: Invalid sort_by option. Must be 'memory' or 'cpu'.">>]
    ELSE IF (~is_int \/ top_n.n <= 0) /\ ~(top_n.t = "float" /\ top_n.n > 0)
    THEN [raised |-> "", spawned |-> <<>>,
          text |-> <<"Error: top_n must be a positive integer. " \o top_n.s>>]
    ELSE LET command == <<"ps", "aux",
                          IF sort_by.s = "memory" THEN "--sort=-%mem" ELSE "--sort=-%cpu">>
             r     == execute_command(command, outcome)
             lines == splitlines(r.text)
         IN [raised |-> r.raised, spawned |-> <<command>>,
             text |-> IF r.raised = "" /\ Len(lines) > top_n.n + 1
                      THEN join_lines(SubSeq(lines, 1, top_n.n + 1))
                      ELSE r.text]

\* ShellAgent.list_files_in_directory(**kwargs)
list_files_in_directory(kwargs, outcome) ==
    LET path        == arg(kwargs, "path", Value("str", 0, "."))
        show_hidden == arg(kwargs, "show_hidden", Value("bool", 1, "True"))
        long_format == arg(kwargs, "long_format", Value("bool", 0, "False"))
        command     == <<"ls">> \o (IF truthy(long_format) THEN <<"-l">> ELSE <<>>)
                                \o (IF truthy(show_hidden) THEN <<"-A">> ELSE <<>>)
                                \o <<path.s>>
        r           == execute_command(command, outcome)
    IN [raised |-> r.raised, spawned |-> <<command>>, text |-> r.text]

\* The handler registered under `name`, called with **kwargs.
handler(name, kwargs, outcome) ==
    CASE name = "get_disk_space" ->
             LET r == execute_command(<<"df", "-h">>, outcome)
             IN [raised |-> r.raised, spawned |-> << <<"df", "-h">> >>, text |-> r.text]
      [] name = "get_current_directory" ->
             LET r == execute_command(<<"pwd">>, outcome)
             IN [raised |-> r.raised, spawned |-> << <<"pwd">> >>, text |-> r.text]
      [] name = "list_running_processes" -> list_running_processes(kwargs, outcome)
      [] name = "list_files_in_directory" -> list_files_in_directory(kwargs, outcome)

\* call_tool with a plain dictionary lookup and no except clauses.
call_tool_unguarded(name, function_args, outcome) ==
    IF name \in available_functions
    THEN IF DOMAIN function_args \subseteq handler_params[name]
         THEN LET r == handler(name, function_args, outcome)
              IN [raised |-> r.raised, result |-> Str(r.text), spawned |-> r.spawned]
         ELSE [raised |-> "TypeError", result |-> "", spawned |-> <<>>]
    ELSE [raised |-> "KeyError", result |-> "", spawned |-> <<>>]

\* ShellAgent.call_tool({"name": name, "args": function_args}) when the
\* process it may spawn ends as `outcome`: the exception that leaves it (""
\* when it returns), the returned string and the argument vectors handed to
\* subprocess.run.
call_tool(name, function_args, outcome) ==
    IF name \in available_functions
    THEN IF DOMAIN function_args \subseteq handler_params[name]
         THEN LET r == handler(name, function_args, outcome) IN
              IF r.raised = ""
              THEN [raised |-> "", result |-> Str(r.text), spawned |-> r.spawned]
              ELSE IF IsException(r.raised)
              THEN [raised |-> "", spawned |-> r.spawned,
                    result |-> "An unexpected error occurred during tool execution: "
                                   \o r.raised]
              ELSE [raised |-> r.raised, result |-> "", spawned |-> r.spawned]
         ELSE [raised |-> "", spawned |-> <<>>,
               result |-> "Error: Invalid arguments for command '" \o name
                              \o "'. Details: unexpected keyword argument"]
    ELSE [raised |-> "", spawned |-> <<>>,
          result |-> "Error: Function '" \o name \o "' not found or not supported."]

\* ------------------------------------------------------------- transcript
\* One entry of chat_history.  Every entry carries every field so that
\* entries compare; the fields an entry does not use are empty.
Turn(role, kind, name, command, args, content) ==
    [role |-> role, kind |-> kind, name |-> name,
     command |-> command, args |-> args, content |-> content]

\* {"role": 'user', 'parts': [user_input]}
UserTurn(text) == Turn("user", "text", "", "", <<>>, text)

\* {'role': 'model', 'parts': [llm_text]}
ModelTextTurn(text) == Turn("model", "text", "", "", <<>>, text)

\* {'role': 'model', 'parts': [{"function_call": {...}}]}
FunctionCallTurn(name, command, args) ==
    Turn("model", "function_call", name, command, args, "")

\* The tool result recorded as reply text.
tool_turn_as_text(name, content) == ModelTextTurn(content)

\* {'role': 'tool', 'parts': [{"function_response": {...}}]}
ToolTurn(name, content) ==
    Turn("tool", "function_response", name, "", <<>>, content)

\* The oldest entry removed instead of the newest.
pop_oldest(h) == SubSeq(h, 2, Len(h))

\* list.pop()
pop(h) == SubSeq(h, 1, Len(h) - 1)

\* ---------------------------------------------------------------- inputs
\* Lines the user may type at "You: ".
UserInputs ==
    {<<"h","i">>, <<"e","x","i","t">>, <<"Q","u","i","t">>}

\* Lines the user may type at an approval prompt.
Answers == {<<"y">>, <<" ","Y","\n">>, <<"n">>, <<"y","e","s">>, <<>>}

\* Text the model may stream back (the empty string: no text part).
LlmTexts == {"", "Sure."}

\* Function calls the model may emit: name, args['command'], args['args'].
FunctionCalls ==
    {[name |-> "execute_shell_command", command |-> "ls", args |-> <<"-la", "/tmp">>],
     [name |-> "execute_shell_command", command |-> "rm", args |-> <<"-rf", "/tmp/x">>],
     [name |-> "execute_shell_command", command |-> "vim", args |-> <<>>],
     [name |-> "get_disk_space", command |-> "", args |-> <<>>]}

\* The sequences of at most n function calls.
CallSeqs(n) == UNION {[1..k -> FunctionCalls] : k \in 0..n}

\* The value of a local name that has not been assigned.
Unbound == "<unbound>"

\* ----------------------------------------------------------------- state
VARIABLES
    mode,          \* chat_session(mode): "safe" or "wild"
    tools,         \* the tool declarations the model was built with
    pc,            \* where chat_session stands
    chat_history,  \* the module-level transcript
    llm_text,      \* text of the model's reply to the user turn
    tool_calls,    \* function calls of that reply
    idx,           \* position of the for loop in tool_calls (0: not in the loop)
    can_execute,   \* local of the loop body
    tool_result,   \* local of the loop body
    prompts,       \* answers read at the approval prompts for the current call
    spawned,       \* argument vectors handed to subprocess.run for the current call
    notices,       \* error and status notices printed since the last "You: ", in order
    turns,         \* lines of input requested so far
    calls,         \* function calls emitted by the model so far
    run,           \* the latest direct call of _execute_command, with what it gave
    prev_run,      \* the direct call of _execute_command before it
    dispatch       \* the latest direct call of call_tool, with what it gave

vars == <<mode, tools, pc, chat_history, llm_text, tool_calls, idx, can_execute,
          tool_result, prompts, spawned, notices, turns, calls, run, prev_run, dispatch>>

\* No direct call of _execute_command yet.
NoRun ==
    [command |-> <<>>, outcome |-> [kind |-> "none", stdout |-> <<>>, stderr |-> <<>>],
     raised |-> "", value |-> ""]

\* No direct call of call_tool yet.
NoDispatch ==
    [name |-> "", args |-> <<>>, outcome |-> [kind |-> "none", stdout |-> <<>>, stderr |-> <<>>],
     raised |-> "", result |-> "", spawned |-> <<>>]

\* chat_history = [], and chat_session(mode) stands at its first input().
Init ==
    /\ mode \in {"safe", "wild"}
    /\ tools = get_tool_definitions
    /\ pc = "AwaitingInput"
    /\ chat_history = <<>>
    /\ llm_text = ""
    /\ tool_calls = <<>>
    /\ idx = 0
    /\ can_execute = FALSE
    /\ tool_result = Unbound
    /\ prompts = <<>>
    /\ spawned = <<>>
    /\ notices = <<>>
    /\ turns = 0
    /\ calls = 0
    /\ run = NoRun
    /\ prev_run = NoRun
    /\ dispatch = NoDispatch

\* The function call the for loop is at.
tool_call == tool_calls[idx]

\* tool_call.args: the argument mapping of an emitted function call.
call_args(tc) ==
    IF tc.name = "execute_shell_command"
    THEN [command |-> Value("str", 0, tc.command), args |-> Value("list", 0, "[]")]
    ELSE <<>>

\* ------------------------------------------------------- error handling
\* outer_except with a handler that lets an Exception through.
outer_except_uncaught(e, h) ==
    IF e = "KeyboardInterrupt"
    THEN [pc |-> "Interrupted", history |-> h, notice |-> "Oh, okay.. Goodbye!"]
    ELSE [pc |-> "Crashed", history |-> h, notice |-> "An error occurred"]

\* The except clauses of the while loop, applied to exception e with the
\* transcript h: KeyboardInterrupt breaks out of the loop; an Exception is
\* reported, the last two entries are popped when there are two, and the loop
\* goes on; anything else leaves chat_session.
outer_except(e, h) ==
    IF e = "KeyboardInterrupt"
    THEN [pc |-> "Interrupted", history |-> h, notice |-> "Oh, okay.. Goodbye!"]
    ELSE IF IsException(e)
    THEN [pc |-> "AwaitingInput",
          history |-> IF Len(h) >= 2 THEN pop(pop(h)) ELSE h,
          notice |-> "An error occurred"]
    ELSE [pc |-> "Crashed", history |-> h, notice |-> ""]

\* The except clause around the follow-up call: the last entry is popped
\* when it is a tool entry.
inner_except(h) ==
    IF h # <<>> /\ h[Len(h)].role = "tool" THEN pop(h) ELSE h

\* The locals of the loop are dead once the turn is over.
ResetLocals ==
    /\ llm_text' = ""
    /\ tool_calls' = <<>>
    /\ idx' = 0
    /\ can_execute' = FALSE
    /\ tool_result' = Unbound

\* Exception e leaves the try block; log holds the notices printed so far.
Raise(e, log) ==
    LET r == outer_except(e, chat_history) IN
    /\ chat_history' = r.history
    /\ notices' = Append(log, r.notice)
    /\ ResetLocals
    /\ pc' = r.pc

\* ------------------------------------------------------- approval policy
\* safe_policy with the refusal reason left unassigned.
safe_policy_no_reason(command, tr) ==
    IF command \in safe_commands
    THEN [can_execute |-> TRUE, tool_result |-> tr]
    ELSE [can_execute |-> FALSE, tool_result |-> tr]

\* safe_policy testing the dangerous list in place of the approved list.
safe_policy_not_dangerous(command, tr) ==
    IF command \notin dangerous_commands
    THEN [can_execute |-> TRUE, tool_result |-> tr]
    ELSE [can_execute |-> FALSE,
          tool_result |-> "Command '" \o command \o "' was not executed because "
                          \o "it is not an approved command in 'safe' mode."]

\* mode == "safe": the command runs when it is on the approved list and is
\* refused with a reason otherwise.  tr is tool_result before the decision.
safe_policy(command, tr) ==
    IF command \in safe_commands
    THEN [can_execute |-> TRUE, tool_result |-> tr]
    ELSE [can_execute |-> FALSE,
          tool_result |-> "Command '" \o command \o "' was not executed because "
                          \o "it is not an approved command in 'safe' mode."]

\* wild_first without the second prompt for a dangerous command.
wild_first_single(command, user_approval, tr) ==
    IF user_approval = "y"
    THEN [next |-> "L124", can_execute |-> TRUE, tool_result |-> tr]
    ELSE [next |-> "L124", can_execute |-> FALSE,
          tool_result |-> "Command canceled by user."]

\* wild_first asking twice whatever the command.
wild_first_always_twice(command, user_approval, tr) ==
    IF user_approval = "y"
    THEN [next |-> "Prompt2", can_execute |-> FALSE, tool_result |-> tr]
    ELSE [next |-> "L124", can_execute |-> FALSE,
          tool_result |-> "Command canceled by user."]

\* mode == "wild", the answer to "Do you approve this command".
wild_first(command, user_approval, tr) ==
    IF user_approval = "y"
    THEN IF command \in dangerous_commands
         THEN [next |-> "Prompt2", can_execute |-> FALSE, tool_result |-> tr]
         ELSE [next |-> "L124", can_execute |-> TRUE, tool_result |-> tr]
    ELSE [next |-> "L124", can_execute |-> FALSE,
          tool_result |-> "Command canceled by user."]

\* mode == "wild", the answer to "Are you really sure".
wild_second(ensure_approval, tr) ==
    IF ensure_approval = "y"
    THEN [can_execute |-> TRUE, tool_result |-> tr]
    ELSE [can_execute |-> FALSE, tool_result |-> "Command canceled by user."]

\* The reply text appended whether or not there is any.
append_text_always(h, text) == Append(h, ModelTextTurn(text))

\* if llm_text: chat_history.append({'role': 'model', 'parts': [llm_text]})
append_text(h, text) == IF text # "" THEN Append(h, ModelTextTurn(text)) ELSE h

\* ---------------------------------------------------------------- actions
\* "You: " is answered with a line: exit or quit in any case end the
\* session, any other line is appended as a user entry and sent.
ReadInput ==
    /\ pc = "AwaitingInput"
    /\ turns < MaxTurns
    /\ \E user_input \in UserInputs :
          IF Str(lower(user_input)) \in {"exit", "quit"}
          THEN /\ pc' = "Goodbye"
               /\ notices' = <<"Yomica: Goodbye!">>
               /\ UNCHANGED chat_history
          ELSE /\ pc' = "Dispatched"
               /\ notices' = <<>>
               /\ chat_history' = Append(chat_history, UserTurn(Str(user_input)))
    /\ turns' = turns + 1
    /\ prompts' = <<>>
    /\ spawned' = <<>>
    /\ UNCHANGED <<run, prev_run, dispatch, mode, tools, llm_text, tool_calls, idx, can_execute, tool_result, calls>>

\* input() at "You: " raises: Ctrl-C or a closed standard input.
InputFails ==
    /\ pc = "AwaitingInput"
    /\ turns < MaxTurns
    /\ \E e \in {"KeyboardInterrupt", "EOFError"} : Raise(e, <<>>)
    /\ turns' = turns + 1
    /\ prompts' = <<>>
    /\ spawned' = <<>>
    /\ UNCHANGED <<run, prev_run, dispatch, mode, tools, calls>>

\* The for loop moves to the next function call, or the turn ends.
NextCall ==
    IF idx < Len(tool_calls)
    THEN /\ idx' = idx + 1
         /\ pc' = "ToolCall"
         /\ UNCHANGED <<llm_text, tool_calls, can_execute, tool_result>>
    ELSE /\ pc' = "AwaitingInput"
         /\ ResetLocals

\* chat.send_message(user_input) streams its reply to the end: the text is
\* appended as a model entry when there is some, and the for loop starts
\* when there are function calls.
Reply ==
    /\ pc = "Dispatched"
    /\ \E text \in LlmTexts, fcs \in CallSeqs(MaxCalls - calls) :
          /\ chat_history' = append_text(chat_history, text)
          /\ calls' = calls + Len(fcs)
          /\ IF fcs # <<>>
             THEN /\ llm_text' = text
                  /\ tool_calls' = fcs
                  /\ idx' = 1
                  /\ pc' = "ToolCall"
                  /\ UNCHANGED <<can_execute, tool_result, notices>>
             ELSE /\ pc' = "AwaitingInput"
                  /\ ResetLocals
                  /\ notices' = IF text = "" THEN Append(notices, "no response")
                                ELSE notices
    /\ UNCHANGED <<run, prev_run, dispatch, mode, tools, prompts, spawned, turns>>

\* chat.send_message(user_input), or reading its stream, raises.
ReplyFails ==
    /\ pc = "Dispatched"
    /\ \E e \in {"TransportError", "KeyboardInterrupt"} : Raise(e, notices)
    /\ UNCHANGED <<run, prev_run, dispatch, mode, tools, prompts, spawned, turns, calls>>

\* The body of the for loop down to the decision or the first prompt.
Policy ==
    /\ pc = "ToolCall"
    /\ prompts' = <<>>
    /\ spawned' = <<>>
    /\ IF tool_call.name # "execute_shell_command"
       THEN /\ pc' = "Followup"
            /\ UNCHANGED <<can_execute, tool_result>>
       ELSE IF mode = "safe"
       THEN LET d == safe_policy(tool_call.command, tool_result) IN
            /\ can_execute' = d.can_execute
            /\ tool_result' = d.tool_result
            /\ pc' = "L124"
       ELSE /\ can_execute' = FALSE
            /\ pc' = "Prompt1"
            /\ UNCHANGED tool_result
    /\ UNCHANGED <<run, prev_run, dispatch, mode, tools, chat_history, llm_text, tool_calls, idx, notices, turns, calls>>

\* The first approval prompt is answered.
Answer1 ==
    /\ pc = "Prompt1"
    /\ \E line \in Answers :
          LET user_approval == Str(strip(lower(line)))
              d == wild_first(tool_call.command, user_approval, tool_result) IN
          /\ prompts' = Append(prompts, user_approval)
          /\ can_execute' = d.can_execute
          /\ tool_result' = d.tool_result
          /\ pc' = d.next
    /\ UNCHANGED <<run, prev_run, dispatch, mode, tools, chat_history, llm_text, tool_calls, idx, spawned,
                   notices, turns, calls>>

\* The second, stronger prompt is answered.
Answer2 ==
    /\ pc = "Prompt2"
    /\ \E line \in Answers :
          LET ensure_approval == Str(strip(lower(line)))
              d == wild_second(ensure_approval, tool_result) IN
          /\ prompts' = Append(prompts, ensure_approval)
          /\ can_execute' = d.can_execute
          /\ tool_result' = d.tool_result
          /\ pc' = "L124"
    /\ UNCHANGED <<run, prev_run, dispatch, mode, tools, chat_history, llm_text, tool_calls, idx, spawned,
                   notices, turns, calls>>

\* input() at an approval prompt raises.
PromptFails ==
    /\ pc \in {"Prompt1", "Prompt2"}
    /\ \E e \in {"KeyboardInterrupt", "EOFError"} : Raise(e, notices)
    /\ UNCHANGED <<run, prev_run, dispatch, mode, tools, prompts, spawned, turns, calls>>

\* if can_execute: the call is recorded as a model entry and the tool is
\* about to run; otherwise the refusal is appended as the tool entry.
Decided ==
    /\ pc = "L124"
    /\ IF can_execute
       THEN /\ chat_history' = Append(chat_history,
                  FunctionCallTurn(tool_call.name, tool_call.command, tool_call.args))
            /\ pc' = "Executing"
       ELSE /\ chat_history' = Append(chat_history, ToolTurn(tool_call.name, tool_result))
            /\ pc' = "Followup"
    /\ UNCHANGED <<run, prev_run, dispatch, mode, tools, llm_text, tool_calls, idx, can_execute, tool_result,
                   prompts, spawned, notices, turns, calls>>

\* shell_agent.call_tool returns and its result is appended as the tool entry.
Execute ==
    /\ pc = "Executing"
    /\ \E outcome \in ProcessOutcomes :
          LET r == call_tool(tool_call.name, call_args(tool_call), outcome) IN
          /\ tool_result' = r.result
          /\ spawned' = spawned \o r.spawned
          /\ chat_history' = Append(chat_history, ToolTurn(tool_call.name, r.result))
    /\ pc' = "Followup"
    /\ UNCHANGED <<run, prev_run, dispatch, mode, tools, llm_text, tool_calls, idx, can_execute, prompts,
                   notices, turns, calls>>

\* The follow-up call streams its reply to the end: the summary is appended
\* as a model entry when there is some.
Followup ==
    /\ pc = "Followup"
    /\ \E final_llm_text \in LlmTexts :
          chat_history' = append_text(chat_history, final_llm_text)
    /\ NextCall
    /\ UNCHANGED <<run, prev_run, dispatch, mode, tools, prompts, spawned, notices, turns, calls>>

\* The follow-up call raises: an Exception is handled inside the for loop,
\* which goes on; Ctrl-C leaves the loop.
FollowupFails ==
    /\ pc = "Followup"
    /\ \E e \in {"TransportError", "KeyboardInterrupt"} :
          IF IsException(e)
          THEN /\ chat_history' = inner_except(chat_history)
               /\ notices' = Append(notices, "Error getting follow-up LLM response")
               /\ NextCall
          ELSE Raise(e, notices)
    /\ UNCHANGED <<run, prev_run, dispatch, mode, tools, prompts, spawned, turns, calls>>

Next ==
    \/ ReadInput
    \/ InputFails
    \/ Reply
    \/ ReplyFails
    \/ Policy
    \/ Answer1
    \/ Answer2
    \/ PromptFails
    \/ Decided
    \/ Execute
    \/ Followup
    \/ FollowupFails

Spec == Init /\ [][Next]_vars

\* ------------------------------------------------ the shell agent on its own
\* Argument vectors handed to _execute_command.
Commands == {<<"df", "-h">>, <<"pwd">>, <<"nosuch", "-x">>}

\* Function names handed to call_tool.
ToolNames == available_functions \cup {"execute_shell_command", "format_disk"}

\* The session-side variables, which the shell agent never touches.
session_vars == <<mode, tools, pc, chat_history, llm_text, tool_calls, idx, can_execute,
                  tool_result, prompts, spawned, notices, turns, calls>>

\* shell_agent._execute_command(command)
RunCommand ==
    /\ \E command \in Commands, outcome \in ProcessOutcomes :
          LET r == execute_command(command, outcome) IN
          run' = [command |-> command, outcome |-> outcome,
                  raised |-> r.raised, value |-> Str(r.text)]
    /\ prev_run' = run
    /\ dispatch' = NoDispatch
    /\ UNCHANGED session_vars

\* shell_agent.call_tool({"name": name, "args": function_args})
CallTool ==
    /\ \E name \in ToolNames, function_args \in ArgMappings, outcome \in ProcessOutcomes :
          LET r == call_tool(name, function_args, outcome) IN
          dispatch' = [name |-> name, args |-> function_args, outcome |-> outcome,
                       raised |-> r.raised, result |-> r.result, spawned |-> r.spawned]
    /\ run' = NoRun
    /\ prev_run' = NoRun
    /\ UNCHANGED session_vars

NextExec ==
    \/ RunCommand
    \/ CallTool

SpecExec == Init /\ [][NextExec]_vars

\* ----------------------------------------------------------------- claims
\* The for loop stands at an execute_shell_command call.
AtShellCall == idx \in DOMAIN tool_calls /\ tool_call.name = "execute_shell_command"

\* The last entry of a non-empty sequence.
Last(h) == h[Len(h)]

\* The text of the refusal in safe mode.
SafeRefusal(command) ==
    "Command '" \o command \o "' was not executed because "
        \o "it is not an approved command in 'safe' mode."

Canceled == "Command canceled by user."

DenialReason ==
    IF mode = "safe" THEN SafeRefusal(tool_call.command) ELSE Canceled

C4_ApprovedRunsOnce ==
    (pc = "Followup" /\ AtShellCall /\ can_execute) =>
        /\ Len(chat_history) >= 2
        /\ chat_history[Len(chat_history) - 1] =
               FunctionCallTurn(tool_call.name, tool_call.command, tool_call.args)
        /\ spawned = << <<tool_call.command>> \o tool_call.args >>
        /\ Last(chat_history) = ToolTurn(tool_call.name, tool_result)

FollowupError == "Error getting follow-up LLM response"
TurnError == "An error occurred"

\* C5: when the follow-up call after an approved function call fails, the
\* tool entry and the function-call entry before it are both removed: the
\* transcript is as long as before the two were appended.
C5_FollowupFailureRollsBackPair ==
    [][ (pc = "Followup" /\ AtShellCall /\ can_execute
           /\ notices' = Append(notices, FollowupError)) =>
            chat_history' = pop(pop(chat_history)) ]_vars

\* C6: back at the input prompt after an error aborted the turn, the
\* transcript is empty or ends with a model entry.
C6_NoDanglingTurnAfterError ==
    (pc = "AwaitingInput"
       /\ \E i \in DOMAIN notices : notices[i] \in {TurnError, FollowupError}) =>
        (chat_history = <<>> \/ Last(chat_history).role = "model")

\* C7: whatever the length of the transcript, when the first call to the
\* model fails after the user entry was appended, the handler removes that
\* user entry.
C7_InitialFailureRemovesUserTurn ==
    [][ (pc = "Dispatched" /\ notices' = Append(notices, TurnError)) =>
            /\ Len(chat_history') < Len(chat_history)
            /\ chat_history' = SubSeq(chat_history, 1, Len(chat_history')) ]_vars

\* C8: no failure inside a turn ends the session: after an error notice the
\* loop is still running, and the session is over only after exit or quit
\* was typed or after a keyboard interrupt.
C8_SessionSurvivesErrors ==
    /\ pc # "Crashed"
    /\ (pc = "Goodbye" => notices = <<"Yomica: Goodbye!">>)
    /\ (pc = "Interrupted" =>
           notices # <<>> /\ Last(notices) = "Oh, okay.. Goodbye!")
    /\ (notices # <<>> /\ Last(notices) = TurnError => pc = "AwaitingInput")
    /\ (notices # <<>> /\ Last(notices) = FollowupError =>
           pc \notin {"Goodbye", "Interrupted", "Crashed"})

\* A follow-up call failed, then a later approval prompt of the same reply hit
\* a closed standard input, and the loop is back at the input prompt.
C8_Witness ==
    /\ pc = "AwaitingInput"
    /\ Len(notices) = 2
    /\ notices[1] = FollowupError
    /\ notices[2] = TurnError

\* C10: the tool catalog declares exactly one tool, execute_shell_command,
\* with the required parameter command and the optional parameter args.
C10_SingleUniversalTool ==
    /\ Len(tools) = 1
    /\ {tools[i].name : i \in DOMAIN tools} = {"execute_shell_command"}
    /\ \A i \in DOMAIN tools :
          tools[i].properties = {"command", "args"} /\ tools[i].required = {"command"}

\* ------------------------------------------------------- claims on the agent
\* The three result classes the executor tells apart by exit status.
ExitClasses == {"exit0", "nonzero", "timeout"}

\* _execute_command's value for a process that ran over the timeout.
TimeoutResult == "Error: Command timed out after 10 seconds."

\* _execute_command's value for a process that left with a non-zero status.
ExecutionFailed(message) == "Error executing command: " \o message

\* _execute_command's value for any other failure.
UnexpectedError(message) == "An unexpected error occurred: " \o message

\* C11: for every process outcome _execute_command returns a value and raises
\* nothing; exit code 0 gives the trimmed standard output, a non-zero exit the
\* execution-failed result with the trimmed standard error, a timeout the
\* timeout result; and results of two different ones of these three classes
\* are never the same value.
C11_ExecutorResultClasses ==
    /\ run # NoRun =>
          /\ run.raised = ""
          /\ run.outcome.kind = "exit0" => run.value = Str(strip(run.outcome.stdout))
          /\ run.outcome.kind = "nonzero" =>
                run.value = ExecutionFailed(Str(strip(run.outcome.stderr)))
          /\ run.outcome.kind = "timeout" => run.value = TimeoutResult
    /\ (/\ run # NoRun
        /\ prev_run # NoRun
        /\ run.outcome.kind \in ExitClasses
        /\ prev_run.outcome.kind \in ExitClasses
        /\ run.outcome.kind # prev_run.outcome.kind)
       => run.value # prev_run.value

\* The str(e) messages of the operating-system errors of a failed start.
OSErrorMessages ==
    {oserror_message(e, command) :
        e \in {"FileNotFoundError", "PermissionError"}, command \in Commands}

\* C12: when the executable cannot be resolved, the executor's result names
\* the command and is not an UnexpectedError result, which is what other
\* failures such as permission denied give.
C12_NotFoundDistinct ==
    /\ (run # NoRun /\ run.outcome.kind = "notfound") =>
          /\ run.raised = ""
          /\ run.value \notin {UnexpectedError(msg) : msg \in OSErrorMessages}
    /\ (run # NoRun /\ run.outcome.kind = "permission") =>
          /\ run.raised = ""
          /\ run.value = UnexpectedError(oserror_message("PermissionError", run.command))

\* -------------------------------------------------- claims on the loop, cont.
NoResponse == "no response"

\* C13: a reply with neither text nor function calls shows the 'no response'
\* notice, leaves the transcript as it was after the user entry was appended,
\* runs no approval prompt, no process and no follow-up call, and the loop is
\* back at the input prompt; the notice is shown in no other case.
C13_EmptyResponse ==
    [][/\ (pc = "Dispatched" /\ pc' = "AwaitingInput" /\ chat_history' = chat_history)
          => notices' \in {Append(notices, NoResponse), Append(notices, TurnError)}
       /\ notices' = Append(notices, NoResponse)
          => /\ pc = "Dispatched"
             /\ pc' = "AwaitingInput"
             /\ chat_history' = chat_history
             /\ Last(chat_history).role = "user"
             /\ idx' = 0
             /\ tool_calls' = <<>>
             /\ prompts' = <<>>
             /\ spawned' = <<>>
             /\ notices = <<>>]_vars

\* The second user turn in a row that the model answered with nothing.
C13_Witness ==
    /\ pc = "AwaitingInput"
    /\ notices = <<NoResponse>>
    /\ Len(chat_history) = 2
    /\ \A i \in DOMAIN chat_history : chat_history[i].role = "user"

\* exit and quit as a user may spell them.
ExitWords == {"exit", "Exit", "EXIT", "quit", "Quit", "QUIT"}

\* C14: a line that is exit or quit in any letter case ends the session at
\* once: the step that ends it leaves the transcript as it was and sends
\* nothing to the model, such a line is never appended as a user entry or
\* sent, and nothing runs after the session has ended.
C14_ExitEndsSession ==
    [][/\ pc # "Goodbye"
       /\ pc' = "Goodbye"
          => /\ pc = "AwaitingInput"
             /\ chat_history' = chat_history
             /\ calls' = calls
             /\ notices' = <<"Yomica: Goodbye!">>
       /\ pc' = "Dispatched"
          => /\ chat_history' = Append(chat_history, Last(chat_history'))
             /\ Last(chat_history').role = "user"
             /\ Last(chat_history').content \notin ExitWords]_vars

\* The session was ended by exit or quit after a turn that left entries in
\* the transcript.
C14_Witness ==
    /\ pc = "Goodbye"
    /\ Len(chat_history) >= 2

\* C15: once a follow-up call of the current turn has failed, the loop stands
\* at the input prompt: no later function call of the same reply is put
\* through the policy, prompted for, executed or followed up.
C15_FollowupFailureEndsTurn ==
    (\E i \in DOMAIN notices : notices[i] = FollowupError) => pc = "AwaitingInput"

\* The entries after the latest user entry of a transcript.
SinceUserTurn(h) ==
    LET users == {i \in DOMAIN h : h[i].role = "user"}
        u     == CHOOSE i \in users : \A k \in users : k <= i
    IN SubSeq(h, u + 1, Len(h))

IsSummary(t) == t.role = "model" /\ t.kind = "text" /\ t.content # ""

\* s is what the function calls j .. idx of the reply have appended so far, in
\* order: for a call the loop is done with, its function-call entry when it
\* was approved, then its tool entry, then at most its summary; for the call
\* the loop is at, what the loop's position says.
RECURSIVE InOrder(_, _)
InOrder(s, j) ==
    IF j > idx THEN s = <<>>
    ELSE LET tc     == tool_calls[j]
             shell  == tc.name = "execute_shell_command"
             fc     == FunctionCallTurn(tc.name, tc.command, tc.args)
             has_fc == s # <<>> /\ Head(s) = fc
             s1     == IF has_fc THEN Tail(s) ELSE s
         IN
         IF j = idx /\ pc \in {"ToolCall", "Prompt1", "Prompt2", "L124"} THEN s = <<>>
         ELSE IF j = idx /\ pc = "Executing" THEN s = <<fc>>
         ELSE /\ has_fc => shell
              /\ shell =>
                    /\ s1 # <<>>
                    /\ Head(s1).role = "tool"
                    /\ Head(s1).name = tc.name
                    /\ has_fc <=> Head(s1).content \notin {SafeRefusal(tc.command), Canceled}
              /\ LET s2 == IF shell THEN Tail(s1) ELSE s1 IN
                 IF j = idx THEN s2 = <<>>
                 ELSE InOrder(IF s2 # <<>> /\ IsSummary(Head(s2)) THEN Tail(s2) ELSE s2,
                              j + 1)

\* While the for loop runs and no call of the turn has failed, the transcript
\* since the user entry is the reply text when there is some, then the calls'
\* entries in order.
TurnInOrder ==
    (pc \in {"ToolCall", "Prompt1", "Prompt2", "L124", "Executing", "Followup"}
        /\ notices = <<>>)
    => /\ \E i \in DOMAIN chat_history : chat_history[i].role = "user"
       /\ LET s == SinceUserTurn(chat_history) IN
          IF llm_text # ""
          THEN s # <<>> /\ Head(s) = ModelTextTurn(llm_text) /\ InOrder(Tail(s), 1)
          ELSE InOrder(s, 1)

IsAppend(h, g) == Len(g) = Len(h) + 1 /\ SubSeq(g, 1, Len(h)) = h

\* g is h with its newest entries removed.
IsRemovalFromEnd(h, g) == Len(g) < Len(h) /\ g = SubSeq(h, 1, Len(g))

\* C17: every change a step makes to the transcript is the append of one
\* entry at the end or the removal of the newest entries from the end; no
\* entry is changed in place, moved, or removed from the middle.
C17_AppendOrPopOnly ==
    [][\/ chat_history' = chat_history
       \/ IsAppend(chat_history, chat_history')
       \/ IsRemovalFromEnd(chat_history, chat_history')]_vars

\* The second turn's request failed and the outer handler has popped two
\* entries of a transcript of three.
C17_Witness ==
    /\ pc = "AwaitingInput"
    /\ turns = 2
    /\ notices = <<TurnError>>
    /\ Len(chat_history) = 1

\* call_tool's value for a name with no registered handler.
NotSupported(name) == "Error: Function '" \o name \o "' not found or not supported."

\* call_tool's value for a handler called with arguments it does not take.
InvalidArguments(name) ==
    "Error: Invalid arguments for command '" \o name
        \o "'. Details: unexpected keyword argument"

\* The error values a handler gives for a process that did not end well.
HandlerErrors(d) ==
    {ExecutionFailed(Str(strip(d.outcome.stderr))), TimeoutResult}
    \cup {UnexpectedError(oserror_message(e, c)) :
            e \in {"FileNotFoundError", "PermissionError"},
            c \in {d.spawned[i] : i \in DOMAIN d.spawned}}

\* C18: for every name and argument mapping call_tool returns a string and
\* raises nothing; a name with no registered handler gives the 'not found or
\* not supported' error, a handler called with arguments it does not take or
\* whose process fails gives an error value; the transcript is not touched.
C18_CallToolTotal ==
    [][dispatch' # NoDispatch =>
          LET d == dispatch' IN
          /\ d.raised = ""
          /\ d.name \notin available_functions
             => d.result = NotSupported(d.name) /\ d.spawned = <<>>
          /\ (d.name \in available_functions
                /\ ~(DOMAIN d.args \subseteq handler_params[d.name]))
             => d.result = InvalidArguments(d.name) /\ d.spawned = <<>>
          /\ (d.spawned # <<>> /\ d.outcome.kind # "exit0")
             => d.result \in HandlerErrors(d)
          /\ chat_history' = chat_history]_vars

\* call_tool was handed the name the catalog of the loop would use, and a
\* registered handler was handed arguments it does not take.
C18_Witness ==
    /\ dispatch.name = "get_disk_space"
    /\ "command" \in DOMAIN dispatch.args
    /\ dispatch.result = InvalidArguments("get_disk_space")

\* C19: a follow-up request is sent only for a function call whose tool entry
\* was appended in the same iteration; while the loop is at a call whose name
\* is not execute_shell_command nothing is appended, no follow-up is sent
\* and nothing is rolled back.
C19_FollowupOnlyAfterToolTurn ==
    [][/\ pc' = "Followup"
          => /\ AtShellCall'
             /\ pc \in {"L124", "Executing"}
             /\ IsAppend(chat_history, chat_history')
             /\ Last(chat_history').role = "tool"
       /\ (idx \in DOMAIN tool_calls /\ ~AtShellCall)
          => /\ chat_history' = chat_history
             /\ pc # "Followup"
             /\ notices' = notices]_vars

\* The length the transcript had when the input line of the current turn was
\* read: the entries before the latest user entry.
TurnStart(h) == Len(h) - Len(SinceUserTurn(h)) - 1

\* C20: once the input line of a turn has been read, no step of that turn
\* removes an entry appended during an earlier turn: the transcript as it
\* stood when the line was read stays a prefix of the transcript.
C20_RollbackKeepsEarlierTurns ==
    [][(/\ pc \in {"Dispatched", "ToolCall", "Prompt1", "Prompt2", "L124",
                   "Executing", "Followup"}
        /\ \E i \in DOMAIN chat_history : chat_history[i].role = "user")
       => /\ Len(chat_history') >= TurnStart(chat_history)
          /\ SubSeq(chat_history', 1, TurnStart(chat_history))
                = SubSeq(chat_history, 1, TurnStart(chat_history))]_vars

====
